---- MODULE Spec2Model ----
(***************************************************************************)
(* queuectl: a persistent multi-worker job queue.                          *)
(*                                                                         *)
(* The model covers the job store (src/queuectl/repo.py JobRepository),    *)
(* the worker registry (WorkerRepository), the worker loop                 *)
(* (src/queuectl/worker.py) and the command-line operations that write the *)
(* store (enqueue, dlq retry).  Time is an integer clock in seconds.       *)
(*                                                                         *)
(* The store is SQLite.  SQLAlchemy's SQLite dialect emits no FOR UPDATE   *)
(* clause, and the sqlite3 driver opens a transaction only before the      *)
(* first INSERT/UPDATE/DELETE, so the SELECT of claim_job runs outside any *)
(* transaction and the UPDATE that follows it is "UPDATE jobs SET ...      *)
(* WHERE id = ?".  claim_job is therefore two steps of the store, the      *)
(* select and the update, and steps of other processes may come between    *)
(* them.  mark_success, mark_failure and retry_dlq_job are taken as one    *)
(* step each.                                                              *)
(*                                                                         *)
(* Spec is the program: the worker processes and the command line.         *)
(* SpecOrder is one worker with two jobs.  SpecRepo is one session that    *)
(* calls the methods of JobRepository directly, in any order and on jobs   *)
(* in any state, as the unit tests do; ret holds what the call returned.   *)
(***************************************************************************)
EXTENDS Integers, FiniteSets, Sequences, TLC

\* ---------------------------------------------------------------- bounds
MaxTime == 3
Workers == {"w1", "w2"}
JobIds == {1}
OrderJobIds == {1, 2}
OrderWorkers == {"w1"}
Priorities == {0, 1}
ExitCodes == {-1, 0, 1}
\* the duration in ms the executor measures for a worker
WorkerDurations == {1}

\* NULL of the nullable columns of the jobs table
NoWorker == "null"
NoTime == -1
NoCode == -99
NoJob == 0
NoDuration == -1
\* a call argument that was not passed (Python None)
Absent == -1

\* values of max_retries that enqueue passes to create_job
MaxRetriesArgs == {Absent, 0, 1, 2}
\* values of run_at that enqueue passes to create_job
RunAtArgs == {Absent, 0, MaxTime}
OrderMaxRetriesArgs == {Absent}

\* direct calls of the JobRepository methods (as the unit tests make them)
RepoJobIds == {1}
\* the ids the session passes: the id of a job, and an id no job has
RepoCallIds == {1, 2}
RepoMaxRetriesArgs == {Absent, 1}
RepoExitCodes == {0, 1}
RepoDurations == {0, 5}
\* the values "config set" gives to max_retries and to backoff_base
ConfigMaxRetries == {2, 3}
ConfigBackoffBases == {2, 3}
\* a backoff_base for which the backoff cannot be computed; it stands for 1e300
HugeBase == 1000
\* the "backoff_base" of the JSON given to enqueue
BackoffBaseArgs == {Absent, HugeBase}
\* mark_failure is not called on a job that has this many attempts
MaxAttempts == 3

\* the arguments given to calculate_backoff_delay
MaxBackoffAttempts == 5
BackoffAttempts == 0..MaxBackoffAttempts
BackoffBases == {2, 3, 4}
MaxBackoffs == {1, 5, 20}
\* the largest float of the build; it stands for 1.8e308
FloatMax == 100
\* the characters of an output: "x" is one byte in UTF-8, "e'" (U+00E9) is two
OutputChars == {"x", "e'"}
\* the longest output given to mark_success / mark_failure, in characters
MaxOutputLen == 4
\* the pids of the machine
MaxPid == 3
Pids == 1..MaxPid
\* os.getpid() of the command that starts the workers
SupervisorPids == {10}
\* the count given to start_workers
StartCounts == {1, 2}
\* the timeout given to stop_workers, in polls of 0.5 s
StopTimeouts == {0, 2}
NoCount == -1

\* ------------------------------------------------------------- constants
HeartbeatInterval == 2
\* mark_success / mark_failure: "stdout[:8192]", scaled to the outputs above
OutputCap == 3
\* start_workers: cleanup_stale_workers(stale_threshold_s=60), scaled to the
\* clock of the model: longer than a heartbeat is ever late while a worker
\* runs no job, shorter than a job can run
StaleThreshold == 2

VARIABLES
    now,        \* the wall clock, utcnow()
    jobs,       \* the jobs table: job id -> row
    config,     \* the config table
    registry,   \* the workers table: worker id -> last_heartbeat, NoTime if no row
    pc,         \* position of each worker process
    running,    \* Worker.running of each worker process
    sel,        \* claim_job: the row the select returned
    selnow,     \* claim_job: the local "now"
    cur,        \* Worker.run: the local "job"
    lasthb,     \* Worker.run: the local "last_heartbeat"
    ret,        \* what the last direct call of a JobRepository method returned
    procs,      \* the process table of the machine: pid -> kind of process
    pidfile,    \* ~/.queuectl/workers.pid
    sup,        \* the locals of the Supervisor call in progress, and its result
    fn          \* the last call of a function of the program: arguments and result

vars == <<now, jobs, config, registry, pc, running, sel, selnow, cur, lasthb, ret,
          procs, pidfile, sup, fn>>

\* ------------------------------------------------------------ time helpers
RECURSIVE Pow(_, _)
Pow(b, e) == IF e <= 0 THEN 1 ELSE b * Pow(b, e - 1)

Min2(a, b) == IF a <= b THEN a ELSE b

\* locking.calculate_backoff_delay: min(base^attempts, max_backoff_s) plus a
\* jitter drawn from [0, 0.5*base]; the integer clock keeps the whole seconds
BackoffDelays(attempts, base, max_backoff_s) ==
    { Min2(Pow(base, attempts), max_backoff_s) + jitter : jitter \in 0..(base \div 2) }

\* locking.get_next_run_at
NextRunAts(attempts, base, max_backoff_s) ==
    { now + d : d \in BackoffDelays(attempts, base, max_backoff_s) }

\* locking.get_next_run_at raises OverflowError: base ** attempts, or
\* utcnow() + timedelta(seconds=delay) with the jitter of such a base, is out
\* of range
BackoffOverflows(base) == base >= HugeBase

\* ------------------------------------------------------------- the store
JobSet == DOMAIN jobs

\* the WHERE clause without the state filter
Eligible_AnyState(j, t, lock_timeout_s) ==
    /\ jobs[j].run_at <= t
    /\ \/ jobs[j].locked_by = NoWorker
       \/ jobs[j].locked_at = NoTime
       \/ jobs[j].locked_at < t - lock_timeout_s

\* the WHERE clause without the run_at filter
Eligible_NoRunAt(j, t, lock_timeout_s) ==
    /\ jobs[j].state \in {"pending", "failed"}
    /\ \/ jobs[j].locked_by = NoWorker
       \/ jobs[j].locked_at = NoTime
       \/ jobs[j].locked_at < t - lock_timeout_s

\* the WHERE clause of claim_job
Eligible(j, t, lock_timeout_s) ==
    /\ jobs[j].state \in {"pending", "failed"}
    /\ jobs[j].run_at <= t
    /\ \/ jobs[j].locked_by = NoWorker
       \/ jobs[j].locked_at = NoTime
       \/ jobs[j].locked_at < t - lock_timeout_s

\* an ORDER BY that puts the priority first
SortsBefore_PriorityFirst(a, b) ==
    \/ jobs[a].priority > jobs[b].priority
    \/ /\ jobs[a].priority = jobs[b].priority
       /\ jobs[a].run_at < jobs[b].run_at
    \/ /\ jobs[a].priority = jobs[b].priority
       /\ jobs[a].run_at = jobs[b].run_at
       /\ jobs[a].created_at < jobs[b].created_at

\* the ORDER BY of claim_job: run_at asc, priority desc, created_at asc
SortsBefore(a, b) ==
    \/ jobs[a].run_at < jobs[b].run_at
    \/ /\ jobs[a].run_at = jobs[b].run_at
       /\ jobs[a].priority > jobs[b].priority
    \/ /\ jobs[a].run_at = jobs[b].run_at
       /\ jobs[a].priority = jobs[b].priority
       /\ jobs[a].created_at < jobs[b].created_at

EligibleSet(t, lock_timeout_s) ==
    { j \in JobSet : Eligible(j, t, lock_timeout_s) }

\* the rows LIMIT 1 may return: the first rows of the ordered result
FirstRows(t, lock_timeout_s) ==
    { j \in EligibleSet(t, lock_timeout_s) :
        \A k \in EligibleSet(t, lock_timeout_s) : ~SortsBefore(k, j) }

\* JobRepository.create_job (the row it inserts)
NewJob(priority, run_at, max_retries) ==
    [ state          |-> "pending",
      attempts       |-> 0,
      max_retries    |-> IF max_retries # Absent THEN max_retries ELSE config.max_retries,
      backoff_base   |-> config.backoff_base,
      priority       |-> priority,
      run_at         |-> IF run_at # Absent THEN run_at ELSE now,
      created_at     |-> now,
      locked_by      |-> NoWorker,
      locked_at      |-> NoTime,
      last_exit_code |-> NoCode,
      duration_ms    |-> NoDuration ]

\* a mark_success that counts the run as an attempt
MarkSuccessRow_CountsAttempt(row, exit_code, duration_ms) ==
    [ row EXCEPT !.state = "completed",
                 !.attempts = @ + 1,
                 !.last_exit_code = exit_code,
                 !.duration_ms = duration_ms,
                 !.locked_by = NoWorker,
                 !.locked_at = NoTime ]

\* JobRepository.mark_success (the row it writes)
MarkSuccessRow(row, exit_code, duration_ms) ==
    [ row EXCEPT !.state = "completed",
                 !.last_exit_code = exit_code,
                 !.duration_ms = duration_ms,
                 !.locked_by = NoWorker,
                 !.locked_at = NoTime ]

\* a mark_failure that leaves the lock on a job it schedules for a retry
MarkFailureRow_KeepLock(row, exit_code, duration_ms, next_run_at) ==
    LET attempts == row.attempts + 1 IN
    IF attempts >= row.max_retries
    THEN [ row EXCEPT !.attempts = attempts,
                      !.last_exit_code = exit_code,
                      !.duration_ms = duration_ms,
                      !.state = "dead",
                      !.locked_by = NoWorker,
                      !.locked_at = NoTime ]
    ELSE [ row EXCEPT !.attempts = attempts,
                      !.last_exit_code = exit_code,
                      !.duration_ms = duration_ms,
                      !.state = "failed",
                      !.run_at = next_run_at ]

\* a mark_failure that moves a job to the DLQ one failure too late
MarkFailureRow_Strict(row, exit_code, duration_ms, next_run_at) ==
    LET attempts == row.attempts + 1 IN
    IF attempts > row.max_retries
    THEN [ row EXCEPT !.attempts = attempts,
                      !.last_exit_code = exit_code,
                      !.duration_ms = duration_ms,
                      !.state = "dead",
                      !.locked_by = NoWorker,
                      !.locked_at = NoTime ]
    ELSE [ row EXCEPT !.attempts = attempts,
                      !.last_exit_code = exit_code,
                      !.duration_ms = duration_ms,
                      !.state = "failed",
                      !.run_at = next_run_at,
                      !.locked_by = NoWorker,
                      !.locked_at = NoTime ]

\* a mark_failure that decides on the max_retries of the config table
MarkFailureRow_LiveConfig(row, exit_code, duration_ms, next_run_at) ==
    LET attempts == row.attempts + 1 IN
    IF attempts >= config.max_retries
    THEN [ row EXCEPT !.attempts = attempts,
                      !.last_exit_code = exit_code,
                      !.duration_ms = duration_ms,
                      !.state = "dead",
                      !.locked_by = NoWorker,
                      !.locked_at = NoTime ]
    ELSE [ row EXCEPT !.attempts = attempts,
                      !.last_exit_code = exit_code,
                      !.duration_ms = duration_ms,
                      !.state = "failed",
                      !.run_at = next_run_at,
                      !.locked_by = NoWorker,
                      !.locked_at = NoTime ]

\* JobRepository.mark_failure (the row it writes), run_at chosen by the jitter
MarkFailureRow(row, exit_code, duration_ms, next_run_at) ==
    LET attempts == row.attempts + 1 IN
    IF attempts >= row.max_retries
    THEN [ row EXCEPT !.attempts = attempts,
                      !.last_exit_code = exit_code,
                      !.duration_ms = duration_ms,
                      !.state = "dead",
                      !.locked_by = NoWorker,
                      !.locked_at = NoTime ]
    ELSE [ row EXCEPT !.attempts = attempts,
                      !.last_exit_code = exit_code,
                      !.duration_ms = duration_ms,
                      !.state = "failed",
                      !.run_at = next_run_at,
                      !.locked_by = NoWorker,
                      !.locked_at = NoTime ]

\* JobRepository.mark_failure: get_next_run_at is called for a job that is to
\* be retried only; a job that goes to the DLQ keeps its run_at
RetryRunAts(row) ==
    IF row.attempts + 1 >= row.max_retries
    THEN {row.run_at}
    ELSE NextRunAts(row.attempts + 1, row.backoff_base, config.max_backoff_s)

\* JobRepository.mark_failure raises: the job is to be retried and its backoff
\* overflows; the session is closed without a commit and the row stays as it is
MarkFailureRaises(row) ==
    /\ row.attempts + 1 < row.max_retries
    /\ BackoffOverflows(row.backoff_base)

\* a retry that puts the job into the queue as a new job
RetryRow_Recreate(row) ==
    [ row EXCEPT !.state = "pending",
                 !.attempts = 0,
                 !.run_at = now,
                 !.created_at = now,
                 !.locked_by = NoWorker,
                 !.locked_at = NoTime ]

\* JobRepository.retry_dlq_job (the row it writes)
RetryRow(row) ==
    [ row EXCEPT !.state = "pending",
                 !.attempts = 0,
                 !.run_at = now,
                 !.locked_by = NoWorker,
                 !.locked_at = NoTime ]

\* a claim that starts the count of attempts again
ClaimRow_ResetAttempts(row, worker_id, t) ==
    [ row EXCEPT !.locked_by = worker_id,
                 !.locked_at = t,
                 !.state = "processing",
                 !.attempts = 0 ]

\* a claim that also makes the job due at the time of the claim
ClaimRow_TouchRunAt(row, worker_id, t) ==
    [ row EXCEPT !.locked_by = worker_id,
                 !.locked_at = t,
                 !.state = "processing",
                 !.run_at = t ]

\* JobRepository.claim_job (the row its UPDATE writes)
ClaimRow(row, worker_id, t) ==
    [ row EXCEPT !.locked_by = worker_id,
                 !.locked_at = t,
                 !.state = "processing" ]

\* ------------------------------------------------ supervisor (supervisor.py)
Range(s) == { s[i] : i \in 1..Len(s) }

\* _load_pids when the PID file does not exist
NoFile == [ exists |-> FALSE, pids |-> << >> ]

\* no call of the Supervisor has been made
SupIdle ==
    [ phase     |-> "idle",     \* "wait": stop_workers is in its wait loop
      pids      |-> << >>,      \* stop_workers: pids
      stopped   |-> 0,          \* stop_workers: stopped
      remaining |-> {},         \* stop_workers: remaining_pids
      elapsed   |-> 0,          \* stop_workers: polls since start_time
      timeout   |-> 0,          \* stop_workers: timeout
      termed    |-> {},         \* pids whose os.kill(pid, SIGTERM) returned
      failed    |-> {},         \* pids whose os.kill(pid, SIGTERM) raised
      gone      |-> {},         \* pids for which os.kill raised ProcessLookupError
      forced    |-> {},         \* pids given to os.kill(pid, SIGKILL)
      stop_ret  |-> NoCount,    \* what stop_workers returned
      start_ret |-> << >>,      \* what start_workers returned
      ids       |-> << >> ]     \* the worker ids start_workers gave

\* no function has been called
NoCall == [ name |-> "none" ]

\* ------------------------------------------------------------------ Init
\* The store after "init", with no job and no worker row, and the worker
\* processes spawned.  The config table holds the keys _seed_default_config
\* seeds; their values are the defaults scaled down to the clock of the model
\* with "config set" (max_retries 2, lock_timeout_s 1, max_backoff_s 1).
Init ==
    /\ now = 0
    /\ jobs = << >>
    /\ config = [ max_retries |-> 2, backoff_base |-> 2,
                  lock_timeout_s |-> 1, max_backoff_s |-> 1 ]
    /\ registry = [ w \in Workers |-> NoTime ]
    /\ pc = [ w \in Workers |-> "init" ]
    /\ running = [ w \in Workers |-> TRUE ]
    /\ sel = [ w \in Workers |-> NoJob ]
    /\ selnow = [ w \in Workers |-> 0 ]
    /\ cur = [ w \in Workers |-> NoJob ]
    /\ lasthb = [ w \in Workers |-> 0 ]
    /\ ret = "none"
    /\ procs = [ p \in Pids |-> "free" ]
    /\ pidfile = NoFile
    /\ sup = SupIdle
    /\ fn = NoCall

\* ------------------------------------------------------------ the clock
Tick ==
    /\ now < MaxTime
    /\ now' = now + 1
    /\ UNCHANGED <<jobs, config, registry, pc, running, sel, selnow, cur, lasthb, ret, procs, pidfile, sup, fn>>

\* ----------------------------------------------------- command line (cli.py)
\* enqueue -> JobRepository.create_job; a duplicate id raises and adds nothing
Enqueue(id, priority, run_at, max_retries) ==
    /\ id \notin JobSet
    /\ jobs' = jobs @@ (id :> NewJob(priority, run_at, max_retries))
    /\ UNCHANGED <<now, config, registry, pc, running, sel, selnow, cur, lasthb, ret, procs, pidfile, sup, fn>>

\* enqueue of a JSON that may carry a "backoff_base"; no field is validated
EnqueueWithBase(id, priority, run_at, max_retries, backoff_base) ==
    /\ id \notin JobSet
    /\ jobs' = jobs @@ (id :> [ NewJob(priority, run_at, max_retries) EXCEPT
                                  !.backoff_base = IF backoff_base # Absent
                                                   THEN backoff_base ELSE @ ])
    /\ UNCHANGED <<now, config, registry, pc, running, sel, selnow, cur, lasthb, ret, procs, pidfile, sup, fn>>

\* dlq retry -> JobRepository.retry_dlq_job
DlqRetry(id) ==
    /\ id \in JobSet
    /\ jobs[id].state = "dead"
    /\ jobs' = [ jobs EXCEPT ![id] = RetryRow(@) ]
    /\ UNCHANGED <<now, config, registry, pc, running, sel, selnow, cur, lasthb, ret, procs, pidfile, sup, fn>>

\* ------------------------------------------------------ worker (worker.py)
\* Worker.run up to the loop: register_worker inserts the row of the worker,
\* last_heartbeat = time.time()
Register(w) ==
    /\ pc[w] = "init"
    /\ registry[w] = NoTime
    /\ registry' = [ registry EXCEPT ![w] = now ]
    /\ lasthb' = [ lasthb EXCEPT ![w] = now ]
    /\ pc' = [ pc EXCEPT ![w] = "poll" ]
    /\ UNCHANGED <<now, jobs, config, running, sel, selnow, cur, ret, procs, pidfile, sup, fn>>

\* claim_job, first half: the SELECT ... ORDER BY ... LIMIT 1
ClaimSelect(w) ==
    /\ pc[w] = "poll"
    /\ running[w]
    /\ IF FirstRows(now, config.lock_timeout_s) = {}
       THEN /\ pc' = [ pc EXCEPT ![w] = "sleep" ]
            /\ UNCHANGED <<sel, selnow>>
       ELSE \E j \in FirstRows(now, config.lock_timeout_s) :
                /\ sel' = [ sel EXCEPT ![w] = j ]
                /\ selnow' = [ selnow EXCEPT ![w] = now ]
                /\ pc' = [ pc EXCEPT ![w] = "update" ]
    /\ UNCHANGED <<now, jobs, config, registry, running, cur, lasthb, ret, procs, pidfile, sup, fn>>

\* a claim after which the worker polls again without running the job
ClaimUpdate_NoProcess(w) ==
    /\ pc[w] = "update"
    /\ jobs' = [ jobs EXCEPT ![sel[w]] = ClaimRow(@, w, selnow[w]) ]
    /\ cur' = [ cur EXCEPT ![w] = sel[w] ]
    /\ sel' = [ sel EXCEPT ![w] = NoJob ]
    /\ selnow' = [ selnow EXCEPT ![w] = 0 ]
    /\ pc' = [ pc EXCEPT ![w] = "poll" ]
    /\ UNCHANGED <<now, config, registry, running, lasthb, ret, procs, pidfile, sup, fn>>

\* claim_job, second half: the UPDATE of the selected row and the return
ClaimUpdate(w) ==
    /\ pc[w] = "update"
    /\ jobs' = [ jobs EXCEPT ![sel[w]] = ClaimRow(@, w, selnow[w]) ]
    /\ cur' = [ cur EXCEPT ![w] = sel[w] ]
    /\ sel' = [ sel EXCEPT ![w] = NoJob ]
    /\ selnow' = [ selnow EXCEPT ![w] = 0 ]
    /\ pc' = [ pc EXCEPT ![w] = "exec" ]
    /\ UNCHANGED <<now, config, registry, running, lasthb, ret, procs, pidfile, sup, fn>>

\* Worker.run: the heartbeat at the end of an iteration
HeartbeatDue(w) == now - lasthb[w] >= HeartbeatInterval

SendHeartbeat(w) ==
    IF HeartbeatDue(w)
    THEN /\ registry' = [ registry EXCEPT ![w] = IF @ = NoTime THEN NoTime ELSE now ]
         /\ lasthb' = [ lasthb EXCEPT ![w] = now ]
    ELSE UNCHANGED <<registry, lasthb>>

\* a dispatch that takes every non-negative exit code for a success
IsSuccess_NonNegative(exit_code) == exit_code >= 0

\* a dispatch that takes the exit code of a timeout for a success
IsSuccess_TimeoutOk(exit_code) == exit_code \in {0, -1}

\* Worker._process_job: "if result.exit_code == 0"
IsSuccess(exit_code) == exit_code = 0

\* Worker._process_job with an exit code 0: mark_success
ProcessSuccess(w) ==
    /\ pc[w] = "exec"
    /\ \E exit_code \in ExitCodes, duration_ms \in WorkerDurations :
        /\ IsSuccess(exit_code)
        /\ jobs' = [ jobs EXCEPT ![cur[w]] = MarkSuccessRow(@, exit_code, duration_ms) ]
    /\ SendHeartbeat(w)
    /\ cur' = [ cur EXCEPT ![w] = NoJob ]
    /\ pc' = [ pc EXCEPT ![w] = "poll" ]
    /\ UNCHANGED <<now, config, running, sel, selnow, ret, procs, pidfile, sup, fn>>

\* Worker._process_job with another exit code: mark_failure
ProcessFailure(w) ==
    /\ pc[w] = "exec"
    /\ ~MarkFailureRaises(jobs[cur[w]])
    /\ \E exit_code \in ExitCodes, duration_ms \in WorkerDurations :
        /\ ~IsSuccess(exit_code)
        /\ \E next_run_at \in RetryRunAts(jobs[cur[w]]) :
             jobs' = [ jobs EXCEPT ![cur[w]] =
                                MarkFailureRow(@, exit_code, duration_ms, next_run_at) ]
    /\ SendHeartbeat(w)
    /\ cur' = [ cur EXCEPT ![w] = NoJob ]
    /\ pc' = [ pc EXCEPT ![w] = "poll" ]
    /\ UNCHANGED <<now, config, running, sel, selnow, ret, procs, pidfile, sup, fn>>

\* Worker._process_job, "except Exception": a call of the try block raises (the
\* read of job_timeout_s or the session of the outcome fails) and the
\* mark_failure(job.id, -1, "", "Worker error: ...", 0) of the handler returns
ProcessError(w) ==
    /\ pc[w] = "exec"
    /\ ~MarkFailureRaises(jobs[cur[w]])
    /\ \E next_run_at \in RetryRunAts(jobs[cur[w]]) :
         jobs' = [ jobs EXCEPT ![cur[w]] = MarkFailureRow(@, -1, 0, next_run_at) ]
    /\ SendHeartbeat(w)
    /\ cur' = [ cur EXCEPT ![w] = NoJob ]
    /\ pc' = [ pc EXCEPT ![w] = "poll" ]
    /\ UNCHANGED <<now, config, running, sel, selnow, ret, procs, pidfile, sup, fn>>

\* an exception that leaves the loop without the "finally" of Worker.run
ProcessAbort_NoFinally(w) ==
    /\ pc[w] = "exec"
    /\ MarkFailureRaises(jobs[cur[w]])
    /\ pc' = [ pc EXCEPT ![w] = "done" ]
    /\ cur' = [ cur EXCEPT ![w] = NoJob ]
    /\ lasthb' = [ lasthb EXCEPT ![w] = 0 ]
    /\ UNCHANGED <<now, jobs, config, registry, running, sel, selnow, ret, procs, pidfile, sup, fn>>

\* Worker._process_job, "except Exception", on a job whose mark_failure raises:
\* a call of the try block raises (the mark_failure of an exit code other than
\* 0, or a call that fails as in ProcessError) and the mark_failure of the
\* handler raises as well.  Nothing catches it: it leaves _process_job and the
\* loop of Worker.run, "finally" deregisters the worker and the process ends;
\* the row of the job is as claim_job left it.
ProcessAbort(w) ==
    /\ pc[w] = "exec"
    /\ MarkFailureRaises(jobs[cur[w]])
    /\ registry' = [ registry EXCEPT ![w] = NoTime ]
    /\ pc' = [ pc EXCEPT ![w] = "done" ]
    /\ cur' = [ cur EXCEPT ![w] = NoJob ]
    /\ lasthb' = [ lasthb EXCEPT ![w] = 0 ]
    /\ UNCHANGED <<now, jobs, config, running, sel, selnow, ret, procs, pidfile, sup, fn>>

\* Worker.run up to the loop when the workers table has a row with this id:
\* the INSERT of register_worker raises IntegrityError before the "try", the
\* process ends without polling and without deregistering
RegisterFails(w) ==
    /\ pc[w] = "init"
    /\ registry[w] # NoTime
    /\ pc' = [ pc EXCEPT ![w] = "crashed" ]
    /\ UNCHANGED <<now, jobs, config, registry, running, sel, selnow, cur, lasthb, ret, procs, pidfile, sup, fn>>

\* run_worker(worker_id): a new process starts under the id of one that ended
Respawn(w) ==
    /\ pc[w] \in {"done", "killed", "crashed"}
    /\ pc' = [ pc EXCEPT ![w] = "init" ]
    /\ running' = [ running EXCEPT ![w] = TRUE ]
    /\ UNCHANGED <<now, jobs, config, registry, sel, selnow, cur, lasthb, ret, procs, pidfile, sup, fn>>

\* Worker.run: no job, time.sleep(poll_interval), heartbeat
Sleep(w) ==
    /\ pc[w] = "sleep"
    /\ SendHeartbeat(w)
    /\ pc' = [ pc EXCEPT ![w] = "poll" ]
    /\ UNCHANGED <<now, jobs, config, running, sel, selnow, cur, ret, procs, pidfile, sup, fn>>

\* Worker.run: the loop ends, finally: deregister_worker
Exit(w) ==
    /\ pc[w] = "poll"
    /\ ~running[w]
    /\ registry' = [ registry EXCEPT ![w] = NoTime ]
    /\ pc' = [ pc EXCEPT ![w] = "done" ]
    /\ lasthb' = [ lasthb EXCEPT ![w] = 0 ]
    /\ UNCHANGED <<now, jobs, config, running, sel, selnow, cur, ret, procs, pidfile, sup, fn>>

\* Worker._handle_shutdown: SIGTERM / SIGINT
Shutdown(w) ==
    /\ pc[w] \in {"poll", "update", "exec", "sleep"}
    /\ running[w]
    /\ running' = [ running EXCEPT ![w] = FALSE ]
    /\ UNCHANGED <<now, jobs, config, registry, pc, sel, selnow, cur, lasthb, ret, procs, pidfile, sup, fn>>

\* SIGKILL (Supervisor.stop_workers force kill, or a crash): no handler runs
Kill(w) ==
    /\ pc[w] \in {"poll", "update", "exec", "sleep"}
    /\ pc' = [ pc EXCEPT ![w] = "killed" ]
    /\ running' = [ running EXCEPT ![w] = FALSE ]
    /\ sel' = [ sel EXCEPT ![w] = NoJob ]
    /\ selnow' = [ selnow EXCEPT ![w] = 0 ]
    /\ cur' = [ cur EXCEPT ![w] = NoJob ]
    /\ lasthb' = [ lasthb EXCEPT ![w] = 0 ]
    /\ UNCHANGED <<now, jobs, config, registry, ret, procs, pidfile, sup, fn>>

\* ------------------------------------------ the outputs of a job (repo.py)
\* the strings of at most n characters
RECURSIVE Strings(_)
Strings(n) ==
    IF n = 0 THEN { << >> }
    ELSE Strings(n - 1) \cup
         { Append(t, c) : t \in { u \in Strings(n - 1) : Len(u) = n - 1 }, c \in OutputChars }

\* the UTF-8 bytes of a character
Utf8(c) == IF c = "x" THEN <<120>> ELSE <<195, 169>>

\* the bytes of a string as the TEXT column of the store holds it
RECURSIVE Encode(_)
Encode(str) == IF str = << >> THEN << >> ELSE Utf8(Head(str)) \o Encode(Tail(str))

\* "stdout[:8192] if stdout else None": the slice of a str counts characters
Stored(str) ==
    IF str = << >> THEN [ null |-> TRUE, text |-> << >> ]
    ELSE [ null |-> FALSE,
           text |-> SubSeq(str, 1, Min2(Len(str), OutputCap)) ]

\* mark_success / mark_failure: the stdout and stderr they write to the row
StoreOutput(stdout, stderr) ==
    /\ fn' = [ name |-> "store_output", stdout_in |-> stdout, stderr_in |-> stderr,
               stdout |-> Stored(stdout), stderr |-> Stored(stderr) ]
    /\ UNCHANGED <<now, jobs, config, registry, pc, running, sel, selnow, cur, lasthb, ret,
                   procs, pidfile, sup>>

\* ------------------------------------------------------- locking (locking.py)
\* "base ** attempts" raises OverflowError: the power is beyond the floats
PowOverflows(base, attempts) == Pow(base, attempts) > FloatMax

\* locking.calculate_backoff_delay called with these arguments
CalcBackoff(attempts, base, max_backoff_s) ==
    /\ IF PowOverflows(base, attempts)
       THEN fn' = [ name |-> "calculate_backoff_delay", attempts |-> attempts,
                    base |-> base, max_backoff_s |-> max_backoff_s,
                    raised |-> "OverflowError", delay |-> 0 ]
       ELSE \E d \in BackoffDelays(attempts, base, max_backoff_s) :
            fn' = [ name |-> "calculate_backoff_delay", attempts |-> attempts,
                    base |-> base, max_backoff_s |-> max_backoff_s,
                    raised |-> "none", delay |-> d ]
    /\ UNCHANGED <<now, jobs, config, registry, pc, running, sel, selnow, cur, lasthb, ret,
                   procs, pidfile, sup>>

\* ------------------------------------------------ Supervisor (supervisor.py)
\* a _save_pids that appends to the PID file
SavedPids_Append(old, pids) == old \o pids

\* _save_pids: open(self.pid_file, "w") replaces what the file held
SavedPids(old, pids) == pids

\* WorkerRepository.cleanup_stale_workers (the table it leaves)
CleanupStale(threshold) ==
    [ w \in DOMAIN registry |->
        IF registry[w] # NoTime /\ registry[w] < now - threshold
        THEN NoTime ELSE registry[w] ]

\* Supervisor.start_workers: count processes, each running run_worker under
\* the id worker-{i}-{os.getpid()}, get pids that no process has
StartWorkers(count) ==
    /\ \E mypid \in SupervisorPids :
       \E pids \in [ 1..count -> { p \in Pids : procs[p] = "free" } ] :
        /\ \A i, k \in 1..count : i # k => pids[i] # pids[k]
        /\ procs' = [ p \in Pids |-> IF p \in Range(pids) THEN "worker" ELSE procs[p] ]
        /\ pidfile' = [ exists |-> TRUE, pids |-> SavedPids(pidfile.pids, pids) ]
        /\ sup' = [ sup EXCEPT !.start_ret = pids,
                               !.ids = [ i \in 1..count |-> <<i, mypid>> ] ]
    /\ registry' = CleanupStale(StaleThreshold)
    /\ UNCHANGED <<now, jobs, config, pc, running, sel, selnow, cur, lasthb, ret, fn>>

\* os.kill(pid, signal.SIGTERM) returns: the pid is a process of this user
TermOk(p) == procs[p] \in {"worker", "term"}

\* a loop over the pids that ends at the first pid that cannot be signalled
Signalled_StopAtFirstBad(pids) ==
    { pids[i] : i \in { k \in 1..Len(pids) : \A m \in 1..k : TermOk(pids[m]) } }

\* stop_workers: the pids that the loop over the PID file signals
Signalled(pids) ==
    { pids[i] : i \in { k \in 1..Len(pids) : TermOk(pids[k]) } }

\* Supervisor.stop_workers up to its wait loop: _load_pids, SIGTERM to each
\* pid; when no pid could be signalled the call clears the PID file and returns
StopBegin(timeout) ==
    /\ sup.phase = "idle"
    /\ LET pids == IF pidfile.exists THEN pidfile.pids ELSE << >>
           ok == Signalled(pids)
       IN  IF pids = << >>
           THEN /\ sup' = [ SupIdle EXCEPT !.stop_ret = 0,
                                           !.start_ret = sup.start_ret,
                                           !.ids = sup.ids ]
                /\ UNCHANGED <<procs, pidfile>>
           ELSE /\ procs' = [ p \in Pids |-> IF p \in ok THEN "term" ELSE procs[p] ]
                /\ IF ok # {}
                   THEN /\ sup' = [ sup EXCEPT !.phase = "wait",
                                               !.pids = pids,
                                               !.stopped = Cardinality(ok),
                                               !.remaining = Range(pids),
                                               !.elapsed = 0,
                                               !.timeout = timeout,
                                               !.termed = ok,
                                               !.failed = Range(pids) \ ok,
                                               !.gone = { p \in Range(pids) :
                                                            procs[p] = "free" },
                                               !.forced = {},
                                               !.stop_ret = NoCount ]
                        /\ UNCHANGED pidfile
                   ELSE /\ sup' = [ sup EXCEPT !.pids = pids,
                                               !.stopped = 0,
                                               !.remaining = {},
                                               !.elapsed = 0,
                                               !.timeout = timeout,
                                               !.termed = {},
                                               !.failed = Range(pids),
                                               !.gone = { p \in Range(pids) :
                                                            procs[p] = "free" },
                                               !.forced = {},
                                               !.stop_ret = 0 ]
                        /\ pidfile' = NoFile
    /\ UNCHANGED <<now, jobs, config, registry, pc, running, sel, selnow, cur, lasthb, ret, fn>>

\* stop_workers, one round of the wait loop: os.kill(pid, 0) for each remaining
\* pid, ProcessLookupError takes the pid off the list, then time.sleep(0.5)
StopPoll ==
    /\ sup.phase = "wait"
    /\ sup.remaining # {}
    /\ sup.elapsed < sup.timeout
    /\ LET left == { p \in sup.remaining : procs[p] # "free" }
       IN  sup' = [ sup EXCEPT !.remaining = left,
                              !.gone = @ \cup (sup.remaining \ left),
                              !.elapsed = IF left # {} THEN @ + 1 ELSE @ ]
    /\ UNCHANGED <<now, jobs, config, registry, pc, running, sel, selnow, cur, lasthb, ret,
                   procs, pidfile, fn>>

\* stop_workers after the wait loop: SIGKILL to each remaining pid, _clear_pids,
\* return stopped
StopFinish ==
    /\ sup.phase = "wait"
    /\ ~(sup.remaining # {} /\ sup.elapsed < sup.timeout)
    /\ procs' = [ p \in Pids |-> IF p \in sup.remaining /\ TermOk(p)
                                 THEN "free" ELSE procs[p] ]
    /\ pidfile' = NoFile
    /\ sup' = [ sup EXCEPT !.phase = "idle",
                           !.forced = sup.remaining,
                           !.stop_ret = sup.stopped ]
    /\ UNCHANGED <<now, jobs, config, registry, pc, running, sel, selnow, cur, lasthb, ret, fn>>

\* a worker process ends: after SIGTERM when its job is done, or by itself
ProcExit(p) ==
    /\ procs[p] \in {"worker", "term"}
    /\ procs' = [ procs EXCEPT ![p] = "free" ]
    /\ UNCHANGED <<now, jobs, config, registry, pc, running, sel, selnow, cur, lasthb, ret,
                   pidfile, sup, fn>>

\* the machine gives a pid that no process has to a process of another user:
\* os.kill on it raises PermissionError
ForeignSpawn(p) ==
    /\ procs[p] = "free"
    /\ procs' = [ procs EXCEPT ![p] = "foreign" ]
    /\ UNCHANGED <<now, jobs, config, registry, pc, running, sel, selnow, cur, lasthb, ret,
                   pidfile, sup, fn>>

\* the process of another user ends
ForeignExit(p) ==
    /\ procs[p] = "foreign"
    /\ procs' = [ procs EXCEPT ![p] = "free" ]
    /\ UNCHANGED <<now, jobs, config, registry, pc, running, sel, selnow, cur, lasthb, ret,
                   pidfile, sup, fn>>

\* -------------------------------------------------- ConfigManager (config.py)
\* ConfigManager.set, as "config set <key> <value>" calls it
ConfigSet(key, value) ==
    /\ config' = [ config EXCEPT ![key] = value ]
    /\ UNCHANGED <<now, jobs, registry, pc, running, sel, selnow, cur, lasthb, ret, procs, pidfile, sup, fn>>

\* ------------------------------------- direct calls of JobRepository (repo.py)
\* a duplicate check that never finds the id
IdExists_Never(id) == FALSE

\* create_job: "if self.session.get(Job, job_id)"
IdExists(id) == id \in JobSet

\* JobRepository.create_job; an absent id stands for a generated uuid
CreateJob(id, priority, run_at, max_retries) ==
    /\ \E job_id \in IF id = Absent THEN RepoJobIds \ JobSet ELSE {id} :
          IF IdExists(job_id)
          THEN /\ ret' = "ValueError"
               /\ UNCHANGED jobs
          ELSE /\ jobs' = jobs @@ (job_id :> NewJob(priority, run_at, max_retries))
               /\ ret' = "job"
    /\ UNCHANGED <<now, config, registry, pc, running, sel, selnow, cur, lasthb, procs, pidfile, sup, fn>>

\* JobRepository.claim_job called by a lone session: nothing comes between its
\* SELECT and its UPDATE
ClaimJob(worker_id) ==
    /\ IF FirstRows(now, config.lock_timeout_s) = {}
       THEN /\ ret' = "null"
            /\ UNCHANGED jobs
       ELSE \E j \in FirstRows(now, config.lock_timeout_s) :
                /\ jobs' = [ jobs EXCEPT ![j] = ClaimRow(@, worker_id, now) ]
                /\ ret' = "job"
    /\ UNCHANGED <<now, config, registry, pc, running, sel, selnow, cur, lasthb, procs, pidfile, sup, fn>>

\* JobRepository.mark_success
MarkSuccess(id, exit_code, duration_ms) ==
    /\ IF id \notin JobSet
       THEN UNCHANGED jobs
       ELSE jobs' = [ jobs EXCEPT ![id] = MarkSuccessRow(@, exit_code, duration_ms) ]
    /\ ret' = "null"
    /\ UNCHANGED <<now, config, registry, pc, running, sel, selnow, cur, lasthb, procs, pidfile, sup, fn>>

\* JobRepository.mark_failure
MarkFailure(id, exit_code, duration_ms) ==
    /\ IF id \notin JobSet
       THEN UNCHANGED jobs
       ELSE /\ jobs[id].attempts < MaxAttempts
            /\ \E next_run_at \in NextRunAts(jobs[id].attempts + 1,
                                             jobs[id].backoff_base,
                                             config.max_backoff_s) :
                 jobs' = [ jobs EXCEPT ![id] =
                              MarkFailureRow(@, exit_code, duration_ms, next_run_at) ]
    /\ ret' = "null"
    /\ UNCHANGED <<now, config, registry, pc, running, sel, selnow, cur, lasthb, procs, pidfile, sup, fn>>

\* a retry_dlq_job that also takes a failed job that waits for its retry
RetryDlqJob_AlsoFailed(id) ==
    /\ IF id \notin JobSet \/ jobs[id].state \notin {"dead", "failed"}
       THEN /\ ret' = "false"
            /\ UNCHANGED jobs
       ELSE /\ jobs' = [ jobs EXCEPT ![id] = RetryRow(@) ]
            /\ ret' = "true"
    /\ UNCHANGED <<now, config, registry, pc, running, sel, selnow, cur, lasthb, procs, pidfile, sup, fn>>

\* JobRepository.retry_dlq_job
RetryDlqJob(id) ==
    /\ IF id \notin JobSet \/ jobs[id].state # "dead"
       THEN /\ ret' = "false"
            /\ UNCHANGED jobs
       ELSE /\ jobs' = [ jobs EXCEPT ![id] = RetryRow(@) ]
            /\ ret' = "true"
    /\ UNCHANGED <<now, config, registry, pc, running, sel, selnow, cur, lasthb, procs, pidfile, sup, fn>>


Next ==
    \/ Tick
    \/ \E id \in JobIds, p \in Priorities, r \in RunAtArgs, m \in MaxRetriesArgs :
          Enqueue(id, p, r, m)
    \/ \E id \in JobIds : DlqRetry(id)
    \/ \E w \in Workers : Register(w)
    \/ \E w \in Workers : ClaimSelect(w)
    \/ \E w \in Workers : ClaimUpdate(w)
    \/ \E w \in Workers : ProcessSuccess(w)
    \/ \E w \in Workers : ProcessFailure(w)
    \/ \E w \in Workers : Sleep(w)
    \/ \E w \in Workers : Exit(w)
    \/ \E w \in Workers : Shutdown(w)
    \/ \E w \in Workers : Kill(w)

\* one worker, several jobs: the order in which a worker takes the jobs
NextOrder ==
    \/ Tick
    \/ \E id \in OrderJobIds, p \in Priorities, r \in RunAtArgs, m \in OrderMaxRetriesArgs :
          Enqueue(id, p, r, m)
    \/ \E id \in OrderJobIds : DlqRetry(id)
    \/ \E w \in OrderWorkers : Register(w)
    \/ \E w \in OrderWorkers : ClaimSelect(w)
    \/ \E w \in OrderWorkers : ClaimUpdate(w)
    \/ \E w \in OrderWorkers : ProcessSuccess(w)
    \/ \E w \in OrderWorkers : ProcessFailure(w)
    \/ \E w \in OrderWorkers : Sleep(w)

\* one worker process at a time under one worker id, with every way in which
\* the process can end and start again, and one job
NextWorker ==
    \/ Tick
    \/ \E id \in JobIds, m \in MaxRetriesArgs, b \in BackoffBaseArgs :
          EnqueueWithBase(id, 0, Absent, m, b)
    \/ \E id \in JobIds : DlqRetry(id)
    \/ \E w \in OrderWorkers : Register(w)
    \/ \E w \in OrderWorkers : RegisterFails(w)
    \/ \E w \in OrderWorkers : ClaimSelect(w)
    \/ \E w \in OrderWorkers : ClaimUpdate(w)
    \/ \E w \in OrderWorkers : ProcessSuccess(w)
    \/ \E w \in OrderWorkers : ProcessFailure(w)
    \/ \E w \in OrderWorkers : ProcessError(w)
    \/ \E w \in OrderWorkers : ProcessAbort(w)
    \/ \E w \in OrderWorkers : Sleep(w)
    \/ \E w \in OrderWorkers : Exit(w)
    \/ \E w \in OrderWorkers : Shutdown(w)
    \/ \E w \in OrderWorkers : Kill(w)
    \/ \E w \in OrderWorkers : Respawn(w)

\* the commands "worker start" and "worker stop" and the processes of the machine
NextSup ==
    \/ \E count \in StartCounts : StartWorkers(count)
    \/ \E timeout \in StopTimeouts : StopBegin(timeout)
    \/ StopPoll
    \/ StopFinish
    \/ \E p \in Pids : ProcExit(p)
    \/ \E p \in Pids : ForeignSpawn(p)
    \/ \E p \in Pids : ForeignExit(p)

\* calls of the functions of locking.py
NextBackoff ==
    \/ \E a \in BackoffAttempts, b \in BackoffBases, m \in MaxBackoffs : CalcBackoff(a, b, m)

\* the outputs that mark_success and mark_failure are given
NextOutput ==
    \/ \E stdout \in Strings(MaxOutputLen), stderr \in Strings(MaxOutputLen) :
          StoreOutput(stdout, stderr)

\* one session that calls the methods of JobRepository in any order
NextRepo ==
    \/ Tick
    \/ \E id \in RepoJobIds \cup {Absent}, p \in Priorities, r \in RunAtArgs,
          m \in RepoMaxRetriesArgs :
          CreateJob(id, p, r, m)
    \/ \E w \in Workers : ClaimJob(w)
    \/ \E id \in RepoCallIds, e \in RepoExitCodes, d \in RepoDurations :
          MarkSuccess(id, e, d)
    \/ \E id \in RepoCallIds, e \in RepoExitCodes, d \in RepoDurations :
          MarkFailure(id, e, d)
    \/ \E id \in RepoCallIds : RetryDlqJob(id)

\* the session of NextRepo next to "config set"
NextConfig ==
    \/ Tick
    \/ \E id \in RepoJobIds \cup {Absent}, p \in Priorities, m \in RepoMaxRetriesArgs :
          CreateJob(id, p, Absent, m)
    \/ \E w \in OrderWorkers : ClaimJob(w)
    \/ \E id \in RepoJobIds, d \in RepoDurations : MarkSuccess(id, 0, d)
    \/ \E id \in RepoJobIds, d \in RepoDurations : MarkFailure(id, 1, d)
    \/ \E id \in RepoJobIds : RetryDlqJob(id)
    \/ \E v \in ConfigMaxRetries : ConfigSet("max_retries", v)
    \/ \E v \in ConfigBackoffBases : ConfigSet("backoff_base", v)

Spec == Init /\ [][Next]_vars

SpecRepo == Init /\ [][NextRepo]_vars

SpecOrder == Init /\ [][NextOrder]_vars

SpecConfig == Init /\ [][NextConfig]_vars

SpecWorker == Init /\ [][NextWorker]_vars

SpecSup == Init /\ [][NextSup]_vars

SpecBackoff == Init /\ [][NextBackoff]_vars

SpecOutput == Init /\ [][NextOutput]_vars

\* the worker processes run, and the clock advances; signals, kills and the
\* command line are not scheduled
Fairness ==
    /\ WF_vars(Tick)
    /\ \A w \in Workers :
        /\ WF_vars(Register(w))
        /\ WF_vars(ClaimSelect(w))
        /\ WF_vars(ClaimUpdate(w))
        /\ WF_vars(ProcessSuccess(w) \/ ProcessFailure(w))
        /\ WF_vars(Sleep(w))
        /\ WF_vars(Exit(w))

FairSpec == Init /\ [][Next]_vars /\ Fairness

\* ============================================================== properties
\* the step in which claim_job of worker w runs its SELECT
SelectStep(w) == pc[w] = "poll" /\ pc'[w] \in {"update", "sleep"}

\* the step in which the SELECT of worker w picks job j
PickStep(w, j) == pc[w] = "poll" /\ pc'[w] = "update" /\ sel'[w] = j

\* the step in which claim_job of worker w returns job j
ReturnStep(w, j) == pc[w] = "update" /\ pc'[w] = "exec" /\ sel[w] = j

\* job j is locked by a worker other than w and the lock has not expired
HeldByOther(w, j) ==
    /\ jobs[j].state = "processing"
    /\ jobs[j].locked_by \notin {w, NoWorker}
    /\ jobs[j].locked_at # NoTime
    /\ ~(jobs[j].locked_at < now - config.lock_timeout_s)

\* job j is locked by a worker other than w and the lock has expired
ExpiredLockOfOther(w, j) ==
    /\ jobs[j].state = "processing"
    /\ jobs[j].locked_by \notin {w, NoWorker}
    /\ jobs[j].locked_at # NoTime
    /\ jobs[j].locked_at < now - config.lock_timeout_s

\* C1: claim uniqueness.  A claim never returns job j to worker w while j is
\* processing under the unexpired lock of another worker (whose claim returned
\* j and whose outcome is not recorded yet).
C1_ClaimUniqueness ==
    [][ \A w \in Workers : \A j \in JobIds :
            ReturnStep(w, j) => ~HeldByOther(w, j) ]_vars

\* C2: back-to-back claims.  When the claim of worker w1 has returned the only
\* ready job j (j is processing, locked by w1) and then worker w2 starts its
\* claim, the claim of w2 returns null and changes no job.
C2_BackToBack ==
    [][ \A w1 \in Workers : \A w2 \in Workers \ {w1} : \A j \in JobIds :
            ( /\ j \in JobSet
              /\ pc[w1] = "exec" /\ cur[w1] = j
              /\ jobs[j].state = "processing" /\ jobs[j].locked_by = w1
              /\ \A k \in JobSet \ {j} :
                    ~(jobs[k].state \in {"pending", "failed"} /\ jobs[k].run_at <= now)
              /\ SelectStep(w2) )
            => (pc'[w2] = "sleep" /\ jobs' = jobs /\ cur'[w2] = NoJob) ]_vars

\* C2 witness: w1 holds the only job, returned by its claim, and a claim of w2
\* has returned null
C2_Witness ==
    \E w1 \in Workers : \E w2 \in Workers \ {w1} :
        /\ JobSet = {1}
        /\ pc[w1] = "exec" /\ cur[w1] = 1
        /\ jobs[1].state = "processing" /\ jobs[1].locked_by = w1
        /\ jobs[1].attempts = 0 /\ jobs[1].last_exit_code = NoCode
        /\ jobs[1].run_at <= jobs[1].created_at
        /\ registry[w2] > jobs[1].created_at
        /\ pc[w2] = "sleep"

\* C3: lock-expiry reclaim.  When a job is processing under the expired lock
\* of another worker and no other job is eligible, the next claim of a
\* different worker picks that job.
C3_LockExpiryReclaim ==
    [][ \A w \in Workers : \A j \in JobIds :
            ( /\ j \in JobSet
              /\ ExpiredLockOfOther(w, j)
              /\ EligibleSet(now, config.lock_timeout_s) = {}
              /\ SelectStep(w) )
            => PickStep(w, j) ]_vars

\* job j is orphaned: its holder w was killed before it recorded an outcome
Orphaned(w, j) ==
    /\ j \in JobSet
    /\ pc[w] = "killed"
    /\ jobs[j].state = "processing"
    /\ jobs[j].locked_by = w

\* no worker other than w keeps polling
NoOtherPolling(w) ==
    \A v \in Workers \ {w} : pc[v] \in {"killed", "done"} \/ ~running[v]

\* C4: automatic crash recovery.  A job orphaned by a killed worker, once
\* lock_timeout_s has passed since its claim, eventually reaches completed or
\* dead, as long as another worker keeps polling.
C4_CrashRecovery ==
    \A w \in Workers : \A j \in JobIds :
        (Orphaned(w, j) /\ jobs[j].locked_at < now - config.lock_timeout_s)
            ~> ( \/ (j \in JobSet /\ jobs[j].state \in {"completed", "dead"})
                 \/ NoOtherPolling(w) )

\* C5: lock/state invariant.  A job is processing exactly when locked_by and
\* locked_at are both set, and a job in any other state has both null.
C5_LockStateInvariant ==
    \A j \in JobSet :
        /\ (jobs[j].state = "processing")
              <=> (jobs[j].locked_by # NoWorker /\ jobs[j].locked_at # NoTime)
        /\ (jobs[j].state \in {"pending", "failed", "completed", "dead"})
              => (jobs[j].locked_by = NoWorker /\ jobs[j].locked_at = NoTime)

\* C5 witness: a job that failed into the DLQ, was retried from it and is
\* claimed again
C5_Witness ==
    \E j \in JobSet :
        /\ jobs[j].state = "processing"
        /\ jobs[j].attempts = 0
        /\ jobs[j].last_exit_code = 1

\* C6: attempts bound.  Every job has 0 <= attempts <= max_retries.
C6_AttemptsBound ==
    \A j \in JobSet : 0 <= jobs[j].attempts /\ jobs[j].attempts <= jobs[j].max_retries

\* C7: a dead job has attempts = max_retries.
C7_DeadAttempts ==
    \A j \in JobSet : jobs[j].state = "dead" => jobs[j].attempts = jobs[j].max_retries

\* C8: a completed job has last_exit_code = 0.
C8_CompletedExitCode ==
    \A j \in JobSet : jobs[j].state = "completed" => jobs[j].last_exit_code = 0

\* C8 witness: a job that failed with a non-zero exit code and then completed
C8_Witness ==
    \E j \in JobSet : jobs[j].state = "completed" /\ jobs[j].attempts >= 1

FreshDefault(j) ==
    /\ jobs[j].state = "pending"
    /\ jobs[j].attempts = 0
    /\ jobs[j].last_exit_code = NoCode
    /\ jobs[j].run_at = jobs[j].created_at

\* C11: higher priority first.  With a single worker and two jobs that are both
\* ready (run_at <= now) when the worker polls, both enqueued with the default
\* run_at = now, the worker claims the job with the higher priority first, also
\* when the job with the lower priority was enqueued first.
C11_HigherPriorityFirst ==
    [][ \A w \in OrderWorkers : \A j \in OrderJobIds : \A k \in OrderJobIds \ {j} :
            ( /\ PickStep(w, j)
              /\ k \in JobSet
              /\ FreshDefault(j) /\ FreshDefault(k)
              /\ jobs[j].run_at <= now /\ jobs[k].run_at <= now )
            => jobs[j].priority >= jobs[k].priority ]_vars

FailureStep(w, j) == ProcessFailure(w) /\ cur[w] = j

\* C13: backoff defers the retry.  When a failure moves a processing job to
\* failed, its new run_at is strictly later than the time of the failure and
\* than its previous run_at; no claim returns the job before the clock has
\* reached that run_at; over successive failures the run_at strictly increases.
C13_BackoffDefersRetry ==
    [][ \A w \in Workers : \A j \in JobIds :
            /\ ( /\ j \in JobSet
                 /\ FailureStep(w, j)
                 /\ jobs[j].state = "processing"
                 /\ jobs'[j].state = "failed" )
               => (jobs'[j].run_at > now /\ jobs'[j].run_at > jobs[j].run_at)
            /\ ( /\ j \in JobSet
                 /\ FailureStep(w, j)
                 /\ jobs[j].state = "failed"
                 /\ jobs'[j].state = "failed" )
               => jobs'[j].run_at > jobs[j].run_at
            /\ ( /\ j \in JobSet
                 /\ ReturnStep(w, j) )
               => ~(jobs[j].state = "failed" /\ jobs[j].run_at > now) ]_vars

\* C14: mark_success on an existing job sets state = completed, stores the exit
\* code and the duration, clears locked_by and locked_at, and leaves attempts
\* (and the other columns of the row) unchanged.
C14_MarkSuccessFrame ==
    [][ \A id \in RepoCallIds : \A e \in RepoExitCodes : \A d \in RepoDurations :
            (id \in JobSet /\ MarkSuccess(id, e, d))
            => /\ jobs'[id].state = "completed"
               /\ jobs'[id].last_exit_code = e
               /\ jobs'[id].duration_ms = d
               /\ jobs'[id].locked_by = NoWorker
               /\ jobs'[id].locked_at = NoTime
               /\ jobs'[id].attempts = jobs[id].attempts
               /\ jobs'[id].max_retries = jobs[id].max_retries
               /\ jobs'[id].run_at = jobs[id].run_at ]_vars

\* C14 witness: a job that failed once, was claimed again and was marked
\* completed with a duration of 5 ms
C14_Witness ==
    /\ 1 \in JobSet
    /\ jobs[1].state = "completed"
    /\ jobs[1].attempts = 1
    /\ jobs[1].last_exit_code = 0
    /\ jobs[1].duration_ms = 5
    /\ jobs[1].locked_by = NoWorker
    /\ ret = "null"

\* C15: retry_from_dlq(id) returns true exactly when the job exists and is
\* dead, and then the job is pending with attempts = 0, run_at = now and no
\* lock; for an unknown id or a job in any other state it returns false and
\* leaves every job unchanged.
C15_RetryFromDlq ==
    [][ \A id \in RepoCallIds :
            RetryDlqJob(id)
            => /\ (ret' = "true") <=> (id \in JobSet /\ jobs[id].state = "dead")
               /\ ret' \in {"true", "false"}
               /\ ret' = "true"
                    => /\ jobs'[id].state = "pending"
                       /\ jobs'[id].attempts = 0
                       /\ jobs'[id].run_at = now
                       /\ jobs'[id].locked_by = NoWorker
                       /\ jobs'[id].locked_at = NoTime
               /\ ret' = "false" => jobs' = jobs ]_vars

\* C15 witness: a job that failed into the DLQ was retried from it (pending,
\* attempts 0, the exit code of the failure still stored), and a second retry
\* of the now pending job has returned false
C15_Witness ==
    /\ ret = "false"
    /\ 1 \in JobSet
    /\ jobs[1].state = "pending"
    /\ jobs[1].attempts = 0
    /\ jobs[1].last_exit_code = 1
    /\ jobs[1].run_at > jobs[1].created_at
    /\ jobs[1].locked_by = NoWorker

\* C16: monotone attempts.  From one state to the next the attempts of a job
\* never decrease, except in the step of a successful retry_from_dlq, which
\* sets them to 0.
C16_MonotoneAttempts ==
    [][ \A j \in JobSet :
            jobs'[j].attempts < jobs[j].attempts
            => (DlqRetry(j) /\ jobs[j].state = "dead" /\ jobs'[j].attempts = 0) ]_vars

\* C16 witness: a job with max_retries = 2 whose attempts went up to 2 has been
\* retried from the DLQ: it is pending with attempts 0 and the exit code of its
\* last failure
C16_Witness ==
    \E j \in JobSet :
        /\ jobs[j].max_retries = 2
        /\ jobs[j].state = "pending"
        /\ jobs[j].attempts = 0
        /\ jobs[j].last_exit_code = -1

\* C17: completed is terminal.  Once a job is completed, no step of a worker or
\* of a repository call (claim, mark_success, mark_failure, retry_from_dlq)
\* changes its state, under any interleaving of workers.
C17_CompletedTerminal ==
    [][ \A j \in JobSet :
            jobs[j].state = "completed" => jobs'[j].state = "completed" ]_vars

\* C18: dead is terminal except for the manual retry.  A dead job leaves that
\* state only through a successful retry_from_dlq; no claim, mark_success or
\* mark_failure of a worker changes the state or the attempts of a dead job.
C18_DeadTerminal ==
    [][ \A j \in JobSet :
            jobs[j].state = "dead"
            => \/ DlqRetry(j)
               \/ /\ jobs'[j].state = "dead"
                  /\ jobs'[j].attempts = jobs[j].attempts ]_vars

\* the step in which worker w records the outcome of job j
OutcomeStep(w, j) == (ProcessSuccess(w) \/ ProcessFailure(w)) /\ cur[w] = j

\* worker w holds the claim of job j
HoldsClaim(w, j) == jobs[j].state = "processing" /\ jobs[j].locked_by = w

\* C19: only the holder of the claim records the outcome.  A mark_success or
\* mark_failure of a worker that does not hold the claim of the job (the job is
\* not processing with locked_by = that worker) does not change the state, the
\* attempts or the outcome columns of the job.
C19_OnlyHolderRecords ==
    [][ \A w \in Workers : \A j \in JobIds :
            ( /\ j \in JobSet
              /\ OutcomeStep(w, j)
              /\ ~HoldsClaim(w, j) )
            => /\ jobs'[j].state = jobs[j].state
               /\ jobs'[j].attempts = jobs[j].attempts
               /\ jobs'[j].last_exit_code = jobs[j].last_exit_code
               /\ jobs'[j].duration_ms = jobs[j].duration_ms ]_vars

\* C20: create with an id that already exists fails with a duplicate-id error
\* and leaves the store unchanged (the existing job keeps all its fields and no
\* second row is added); create with a fresh or absent id adds exactly one job,
\* pending with attempts = 0 and no lock.
C20_DuplicateId ==
    [][ \A id \in RepoJobIds \cup {Absent} : \A p \in Priorities :
        \A r \in RunAtArgs : \A m \in RepoMaxRetriesArgs :
            CreateJob(id, p, r, m)
            => IF id \in JobSet
               THEN /\ ret' = "ValueError"
                    /\ jobs' = jobs
               ELSE /\ ret' = "job"
                    /\ \E n \in (DOMAIN jobs') \ JobSet :
                         /\ DOMAIN jobs' = JobSet \cup {n}
                         /\ id # Absent => n = id
                         /\ jobs'[n].state = "pending"
                         /\ jobs'[n].attempts = 0
                         /\ jobs'[n].locked_by = NoWorker
                         /\ jobs'[n].locked_at = NoTime
                    /\ \A k \in JobSet : jobs'[k] = jobs[k] ]_vars

\* C20 witness: a create with the id of a completed job has failed with the
\* duplicate-id error
C20_Witness ==
    /\ ret = "ValueError"
    /\ 1 \in JobSet
    /\ jobs[1].state = "completed"
    /\ jobs[1].attempts = 1

\* C21: a job created without max_retries takes max_retries and backoff_base
\* from the config table as it is at the creation; no step changes the
\* max_retries or the backoff_base of an existing job, a "config set" included;
\* mark_failure moves a job to the DLQ exactly when the attempts reach the
\* max_retries of the job itself
C21_ConfigSnapshot ==
    [][ /\ \A id \in RepoJobIds \cup {Absent} :
            CreateJob(id, 0, Absent, Absent) /\ ret' = "job" =>
                \A j \in (DOMAIN jobs') \ JobSet :
                    /\ jobs'[j].max_retries = config.max_retries
                    /\ jobs'[j].backoff_base = config.backoff_base
        /\ \A j \in JobSet :
            /\ j \in DOMAIN jobs'
            /\ jobs'[j].max_retries = jobs[j].max_retries
            /\ jobs'[j].backoff_base = jobs[j].backoff_base
        /\ \A id \in JobSet, d \in RepoDurations :
            MarkFailure(id, 1, d) =>
                /\ jobs'[id].state = IF jobs[id].attempts + 1 >= jobs[id].max_retries
                                      THEN "dead" ELSE "failed"
      ]_vars

\* a job created under max_retries 2 and backoff_base 2 went to the DLQ at its
\* second failure although the config table says 3 and 3
C21_Witness ==
    /\ 1 \in JobSet
    /\ config.max_retries = 3
    /\ config.backoff_base = 3
    /\ jobs[1].max_retries = 2
    /\ jobs[1].backoff_base = 2
    /\ jobs[1].state = "dead"
    /\ jobs[1].attempts = 2
    /\ ret = "null"

\* the jobs that are processing under the lock of worker w
ClaimsOf(w) == { j \in JobSet : jobs[j].state = "processing" /\ jobs[j].locked_by = w }

\* C22: one job at a time.  At most one job is processing with locked_by equal
\* to the id of a worker, and a worker that is in its claim or sleeps between
\* two claims has no job processing under its id: the outcome of the job it
\* claimed before is recorded.
C22_OneJobAtATime ==
    \A w \in OrderWorkers :
        /\ Cardinality(ClaimsOf(w)) <= 1
        /\ pc[w] \in {"poll", "update", "sleep"} => ClaimsOf(w) = {}
        /\ pc[w] = "exec" => ClaimsOf(w) = {cur[w]}

\* worker w1 runs one job while a second job is ready to be claimed
C22_Witness ==
    /\ pc["w1"] = "exec"
    /\ ClaimsOf("w1") = {1}
    /\ 2 \in JobSet
    /\ Eligible(2, now, config.lock_timeout_s)

C24_WorkerSurvives ==
    [][ \A w \in OrderWorkers :
            (ProcessError(w) \/ ProcessAbort(w)) =>
                LET j == cur[w] IN
                /\ pc'[w] = "poll"
                /\ jobs'[j].attempts = jobs[j].attempts + 1
                /\ jobs'[j].last_exit_code = -1
                /\ jobs'[j].duration_ms = 0
                /\ jobs'[j].state \in {"failed", "dead"}
      ]_vars

\* C25: graceful shutdown.  A worker whose shutdown flag is set while it runs a
\* job records the outcome of that job before it leaves the loop: the step that
\* ends the run leaves the job out of the state processing under the lock of
\* this worker and takes the worker to the loop condition, and the step after
\* that is its exit.
C25_GracefulShutdown ==
    [][ \A w \in OrderWorkers :
            /\ (pc[w] = "exec" /\ ~running[w] /\ pc'[w] \notin {"exec", "killed"}) =>
                  /\ pc'[w] = "poll"
                  /\ ~(/\ jobs'[cur[w]].state = "processing"
                        /\ jobs'[cur[w]].locked_by = w)
            /\ (pc[w] = "poll" /\ ~running[w] /\ pc'[w] \notin {"poll", "killed"}) =>
                  pc'[w] = "done"
      ]_vars

\* C26: deregistration on every exit.  A worker whose loop has ended, through
\* the shutdown flag or through an exception that left the loop, has no row in
\* the workers table: the step that ends the loop removes the row.
C26_DeregisterOnExit ==
    [][ \A w \in OrderWorkers :
            (pc[w] \in {"poll", "update", "exec", "sleep"} /\ pc'[w] = "done") =>
                registry'[w] = NoTime ]_vars

\* worker w1 was registered and its loop was ended by an exception: the flag
\* is not set, the job it ran is still processing under its lock, and its row
\* is gone
C26_Witness ==
    /\ pc["w1"] = "done"
    /\ running["w1"]
    /\ ClaimsOf("w1") = {1}
    /\ registry["w1"] = NoTime

\* C30: register is an upsert.  A worker process that starts under an id that
\* has a row in the workers table (left behind by a killed worker) registers:
\* the row gets last_heartbeat = now and the worker enters its polling loop.
C30_RegisterUpsert ==
    [][ \A w \in OrderWorkers :
            (pc[w] = "init" /\ registry[w] # NoTime /\ pc'[w] # "init") =>
                /\ pc'[w] = "poll"
                /\ registry'[w] = now ]_vars

\* the step in which stop_workers returns after it has read a PID file that
\* lists at least one pid
StopReturnStep ==
    /\ (\E t \in StopTimeouts : StopBegin(t)) \/ StopFinish
    /\ sup'.phase = "idle"
    /\ sup'.pids # << >>

\* C27: supervisor stop.  When stop_workers returns after it has read a PID
\* file that is not empty, every pid of the file was found to have no process
\* any more or was given a force-kill; a force-kill reaches a process only when
\* the timeout has elapsed since the graceful signal; the PID file is removed.
C27_SupervisorStop ==
    [][ StopReturnStep =>
            /\ \A p \in Range(sup'.pids) : p \in sup'.gone \/ p \in sup'.forced
            /\ \A p \in sup'.forced : procs[p] # "free" => sup.elapsed >= sup.timeout
            /\ ~pidfile'.exists
      ]_vars

\* C28: stop tolerates bad pids.  stop_workers gives the graceful signal to
\* every pid of the PID file that is a process the caller may signal, whatever
\* the other pids of the file are; when it returns the PID file is removed and
\* the value returned is the number of pids that took the graceful signal.
C28_StopToleratesBadPids ==
    [][ /\ \A t \in StopTimeouts :
            (StopBegin(t) /\ pidfile.exists) =>
                LET good == { p \in Range(pidfile.pids) : procs[p] \in {"worker", "term"} }
                IN  /\ sup'.termed = good
                    /\ sup'.stopped = Cardinality(good)
                    /\ \A p \in good : procs'[p] = "term"
        /\ StopReturnStep =>
                /\ ~pidfile'.exists
                /\ sup'.stop_ret = Cardinality(sup'.termed)
      ]_vars

\* stop_workers has returned 1 for a PID file of two pids of which the first
\* could not be signalled
C28_Witness ==
    /\ sup.phase = "idle"
    /\ Len(sup.pids) = 2
    /\ sup.pids[1] \in sup.failed
    /\ sup.pids[2] \in sup.termed
    /\ sup.stop_ret = 1
    /\ ~pidfile.exists

\* C29: supervisor start.  start_workers(count) starts exactly count processes,
\* gives them pairwise distinct worker ids, and when it returns the PID file
\* lists exactly the pids of these processes, in the list it returns.
C29_SupervisorStart ==
    [][ \A count \in StartCounts :
            StartWorkers(count) =>
                LET started == { p \in Pids : procs[p] # "worker" /\ procs'[p] = "worker" }
                IN  /\ Cardinality(started) = count
                    /\ \A p \in started : procs[p] = "free"
                    /\ \A p \in Pids \ started : procs'[p] = procs[p]
                    /\ Len(sup'.start_ret) = count
                    /\ Range(sup'.start_ret) = started
                    /\ Len(sup'.ids) = count
                    /\ Cardinality(Range(sup'.ids)) = count
                    /\ pidfile'.exists
                    /\ pidfile'.pids = sup'.start_ret
      ]_vars

\* start_workers(2) has returned over a PID file that an earlier start had
\* written: the file lists the two new pids only
C29_Witness ==
    /\ Len(sup.start_ret) = 2
    /\ pidfile.exists
    /\ pidfile.pids = sup.start_ret
    /\ \E p \in Pids \ Range(pidfile.pids) : procs[p] = "worker"
    /\ \A p \in Range(pidfile.pids) : procs[p] = "worker"

\* C31: backoff bounds.  For all attempts >= 0, base >= 1.1 and max_backoff > 0
\* calculate_backoff_delay returns a delay that is > 0 and at most
\* max_backoff + 0.5*base, and that is at least base^attempts whenever
\* base^attempts <= max_backoff.
C31_BackoffBounds ==
    fn.name = "calculate_backoff_delay" =>
        /\ fn.raised = "none"
        /\ fn.delay > 0
        /\ 2 * fn.delay <= 2 * fn.max_backoff_s + fn.base
        /\ Pow(fn.base, fn.attempts) <= fn.max_backoff_s =>
                fn.delay >= Pow(fn.base, fn.attempts)

\* the first n bytes of a sequence of bytes, all of it when it is shorter
FirstBytes(bytes, n) == SubSeq(bytes, 1, Min2(Len(bytes), n))

\* C32: output cap.  The stdout and the stderr that mark_success or
\* mark_failure stored are each at most 8192 bytes long; of a longer output
\* exactly the first 8192 bytes are stored, a shorter one is stored unchanged.
C32_OutputCap ==
    fn.name = "store_output" =>
        /\ Len(Encode(fn.stdout.text)) <= OutputCap
        /\ Len(Encode(fn.stderr.text)) <= OutputCap
        /\ Encode(fn.stdout.text) = FirstBytes(Encode(fn.stdout_in), OutputCap)
        /\ Encode(fn.stderr.text) = FirstBytes(Encode(fn.stderr_in), OutputCap)

\* C33: attempts counts the failed executions.  The step in which the run of
\* job j by worker w ends either records the success (j completed, attempts as
\* before) or counts the failure (attempts one more); no other step of a
\* worker changes the attempts of a job.
C33_AttemptsCountFailures ==
    [][ \A w \in OrderWorkers :
            /\ (pc[w] = "exec" /\ pc'[w] \notin {"exec", "killed"}) =>
                  LET j == cur[w] IN
                  \/ /\ jobs'[j].state = "completed"
                     /\ jobs'[j].attempts = jobs[j].attempts
                  \/ jobs'[j].attempts = jobs[j].attempts + 1
            /\ (pc[w] # "exec" /\ pc'[w] # pc[w]) =>
                  \A j \in JobSet : jobs'[j].attempts = jobs[j].attempts
      ]_vars

\* the workers that run the command of job j now
Executing(j) == { w \in Workers : pc[w] = "exec" /\ cur[w] = j }

\* C34: max_retries bounds the executions. When no worker has crashed, every
\* execution of a job that has ended is recorded (one attempt for a failure,
\* completed for a success), so the executions since the creation or the
\* latest retry_from_dlq are the attempts, plus one if the job is completed,
\* plus the executions that are running; they never exceed max_retries.
C34_MaxRetriesBoundsExecutions ==
    (\A w \in Workers : pc[w] # "killed") =>
        \A j \in JobSet :
            jobs[j].max_retries >= 1 =>
                jobs[j].attempts + Cardinality(Executing(j))
                    + (IF jobs[j].state = "completed" THEN 1 ELSE 0)
                  <= jobs[j].max_retries

\* ------------------------------------------- the clock beyond MaxTime
\* a time one second further in the past; a time older than the window of the
\* model is kept at its start (every timeout of the model is shorter than the
\* window, so it compares as it did)
Older(t) == IF t = NoTime THEN NoTime ELSE IF t > 0 THEN t - 1 ELSE 0

\* datetime.utcnow() advances without end: at the end of the window one more
\* second passes and every stored time is one second older
Elapse ==
    /\ now = MaxTime
    /\ jobs' = [ j \in JobSet |-> [ jobs[j] EXCEPT !.run_at = Older(@),
                                                   !.locked_at = Older(@),
                                                   !.created_at = Older(@) ] ]
    /\ registry' = [ w \in Workers |-> Older(registry[w]) ]
    /\ selnow' = [ w \in Workers |-> Older(selnow[w]) ]
    /\ lasthb' = [ w \in Workers |-> Older(lasthb[w]) ]
    /\ UNCHANGED <<now, config, pc, running, sel, cur, ret, procs, pidfile, sup, fn>>

\* Worker._process_job: the execution of the command ends, one way or another
Process(w) ==
    \/ ProcessSuccess(w)
    \/ ProcessFailure(w)
    \/ ProcessError(w)
    \/ ProcessAbort(w)

\* one worker id and one job, no signal and no kill; a worker process that has
\* ended is started again by the operator
NextSettle ==
    \/ Tick
    \/ Elapse
    \/ \E id \in JobIds, m \in MaxRetriesArgs, b \in BackoffBaseArgs :
          EnqueueWithBase(id, 0, Absent, m, b)
    \/ \E w \in OrderWorkers : Register(w)
    \/ \E w \in OrderWorkers : ClaimSelect(w)
    \/ \E w \in OrderWorkers : ClaimUpdate(w)
    \/ \E w \in OrderWorkers : ProcessSuccess(w)
    \/ \E w \in OrderWorkers : ProcessFailure(w)
    \/ \E w \in OrderWorkers : ProcessError(w)
    \/ \E w \in OrderWorkers : ProcessAbort(w)
    \/ \E w \in OrderWorkers : Sleep(w)
    \/ \E w \in OrderWorkers : Respawn(w)

\* time advances, a started worker runs its loop, and every execution of a
\* command ends; the operator is not scheduled
FairnessSettle ==
    /\ WF_vars(Tick)
    /\ WF_vars(Elapse)
    /\ \A w \in OrderWorkers :
        /\ WF_vars(Register(w))
        /\ WF_vars(ClaimSelect(w))
        /\ WF_vars(ClaimUpdate(w))
        /\ WF_vars(Process(w))
        /\ WF_vars(Sleep(w))

FairSpecSettle == Init /\ [][NextSettle]_vars /\ FairnessSettle

\* job j is completed or dead
Settled(j) == j \in JobSet /\ jobs[j].state \in {"completed", "dead"}

\* a worker process is running
WorkerRunning == \E w \in OrderWorkers : pc[w] \in {"init", "poll", "update", "exec", "sleep"}

\* C35: every job is eventually settled.  If a worker is running again and
\* again, every job whose run_at is reached eventually is completed or dead.
C35_EventuallySettled ==
    []<>WorkerRunning =>
        \A j \in JobIds :
            (j \in JobSet /\ jobs[j].run_at <= now) ~> Settled(j)

\* ------------------------------------- the timeout of a run (worker.py)
\* None: no timeout
NoTimeout == -1000

\* jobs.timeout_s is a nullable integer that enqueue stores as it is given
JobTimeouts == {NoTimeout} \cup (-3..6)

\* config.get_int("job_timeout_s", 0)
ConfigTimeouts == 0..9

\* Worker._process_job: the timeout_s it passes to execute_job
PassedTimeout(timeout_s, global_timeout) ==
    IF timeout_s = NoTimeout \/ timeout_s = 0
    THEN IF global_timeout > 0 THEN global_timeout ELSE NoTimeout
    ELSE timeout_s

\* execute_job: the timeout of subprocess.run
ActualTimeout(timeout_s) ==
    IF timeout_s # NoTimeout /\ timeout_s # 0 /\ timeout_s > 0 THEN timeout_s ELSE NoTimeout

\* Worker._process_job up to subprocess.run, for a claimed job
StartRun(timeout_s, global_timeout) ==
    /\ fn' = [ name |-> "execute_job",
               job_timeout_s |-> timeout_s,
               job_timeout_config |-> global_timeout,
               timeout_s |-> PassedTimeout(timeout_s, global_timeout),
               actual_timeout |-> ActualTimeout(PassedTimeout(timeout_s, global_timeout)) ]
    /\ UNCHANGED <<now, jobs, config, registry, pc, running, sel, selnow, cur, lasthb, ret, procs, pidfile, sup>>

NextTimeout ==
    \/ \E t \in JobTimeouts, g \in ConfigTimeouts : StartRun(t, g)

SpecTimeout == Init /\ [][NextTimeout]_vars

\* C36: effective timeout.  The run of a claimed job is limited by the job's
\* timeout_s if that is set and > 0, otherwise by the config job_timeout_s if
\* that is > 0, otherwise by nothing.
C36_EffectiveTimeout ==
    fn.name = "execute_job" =>
        fn.actual_timeout =
            IF fn.job_timeout_s # NoTimeout /\ fn.job_timeout_s > 0
            THEN fn.job_timeout_s
            ELSE IF fn.job_timeout_config > 0 THEN fn.job_timeout_config ELSE NoTimeout

\* C37: effect and frame of claim.  A claim that returns job j to worker w
\* sets locked_by = w, locked_at = the "now" of the claim and state =
\* processing on j, leaves every other field of j (attempts, run_at,
\* max_retries, the outcome fields, ...) as it was and changes no other job; a
\* query that returns no row, and the query itself, change no job.
C37_ClaimEffectAndFrame ==
    [][ \A w \in OrderWorkers :
          /\ \A j \in OrderJobIds :
                ReturnStep(w, j) =>
                    /\ jobs'[j] = [ jobs[j] EXCEPT !.locked_by = w,
                                                   !.locked_at = selnow[w],
                                                   !.state = "processing" ]
                    /\ jobs'[j].attempts = jobs[j].attempts
                    /\ jobs'[j].run_at = jobs[j].run_at
                    /\ jobs'[j].max_retries = jobs[j].max_retries
                    /\ jobs'[j].last_exit_code = jobs[j].last_exit_code
                    /\ jobs'[j].duration_ms = jobs[j].duration_ms
                    /\ DOMAIN jobs' = DOMAIN jobs
                    /\ \A k \in JobSet \ {j} : jobs'[k] = jobs[k]
          /\ SelectStep(w) => jobs' = jobs
      ]_vars

\* C37 witness: the claim has returned a job for its second run (attempts = 1,
\* the exit code of the first run still recorded) while another job waits
C37_Witness ==
    \E j \in JobSet : \E k \in JobSet \ {j} :
        /\ pc["w1"] = "exec" /\ cur["w1"] = j
        /\ jobs[j].state = "processing" /\ jobs[j].locked_by = "w1"
        /\ jobs[j].locked_at # NoTime
        /\ jobs[j].attempts = 1 /\ jobs[j].last_exit_code = 1
        /\ jobs[k].state = "pending" /\ jobs[k].locked_by = NoWorker

\* C38: the PID file covers the live workers.  Every worker process that
\* start_workers spawned and that no stop_workers has signalled is listed in
\* the PID file.
C38_PidFileCoversWorkers ==
    \A p \in Pids :
        procs[p] = "worker" => (pidfile.exists /\ p \in Range(pidfile.pids))

\* ------------------------------------ the workers table while workers run
\* an iteration of Worker.run without a job takes poll_interval (0.5 s): a
\* heartbeat that is due is sent before another second has passed
HeartbeatsSent ==
    \A w \in OrderWorkers : pc[w] \in {"poll", "update", "sleep"} => ~HeartbeatDue(w)

\* a second passes; only the run of a command can keep a worker from its
\* heartbeat for longer
TickWorking ==
    /\ HeartbeatsSent
    /\ Tick

\* one worker that polls, runs jobs and is stopped by a signal, while the
\* command "worker start" is given
NextStale ==
    \/ TickWorking
    \/ \E id \in JobIds, m \in MaxRetriesArgs : Enqueue(id, 0, Absent, m)
    \/ \E w \in OrderWorkers : Register(w)
    \/ \E w \in OrderWorkers : ClaimSelect(w)
    \/ \E w \in OrderWorkers : ClaimUpdate(w)
    \/ \E w \in OrderWorkers : ProcessSuccess(w)
    \/ \E w \in OrderWorkers : ProcessFailure(w)
    \/ \E w \in OrderWorkers : Sleep(w)
    \/ \E w \in OrderWorkers : Shutdown(w)
    \/ \E w \in OrderWorkers : Exit(w)
    \/ \E count \in StartCounts : StartWorkers(count)
    \/ \E p \in Pids : ProcExit(p)

SpecStale == Init /\ [][NextStale]_vars

\* worker w has registered and has not deregistered
InLoop(w) == pc[w] \in {"poll", "update", "exec", "sleep"}

\* C39: a running worker stays registered.  From its registration until it
\* deregisters, the row of a worker exists in the workers table.
C39_RunningWorkerRegistered ==
    \A w \in OrderWorkers : InLoop(w) => registry[w] # NoTime

\* the fields of a job that make its definition (the id is the key of the
\* table; the command and timeout_s are written by create_job only)
Definition(row) ==
    <<row.priority, row.max_retries, row.backoff_base, row.created_at>>

\* C40: jobs are never deleted and their definition is immutable.  No step
\* (claim, mark_success, mark_failure, retry_dlq_job, config set, the creation
\* of another job, the clock) removes a job from the table or changes its
\* priority, max_retries, backoff_base or created_at.
C40_JobsKeptDefinitionImmutable ==
    [][ /\ JobSet \subseteq DOMAIN jobs'
        /\ \A j \in JobSet : Definition(jobs'[j]) = Definition(jobs[j]) ]_vars

\* C40 witness: a job of priority 1 created at time 0 went to the DLQ, was
\* retried at a later time and claimed again, after "config set" had changed
\* max_retries and backoff_base
C40_Witness ==
    /\ 1 \in JobSet
    /\ jobs[1].priority = 1
    /\ jobs[1].created_at = 0
    /\ jobs[1].max_retries = 1
    /\ jobs[1].backoff_base = 2
    /\ config.max_retries = 3
    /\ config.backoff_base = 3
    /\ jobs[1].state = "processing"
    /\ jobs[1].last_exit_code = 1
    /\ jobs[1].attempts = 0
    /\ jobs[1].run_at > 0

====
